---- MODULE Spec2Model ----
(***************************************************************************)
(* The WGAN training script chapter5-improved-gan/wgan-mnist-5.1.2.py as a  *)
(* state machine: train() step by step (the outer loop over train_steps,   *)
(* the inner loop over n_critic, the two critic updates, the clipping of    *)
(* the discriminator weights, the adversarial update, the periodic grid    *)
(* and the final save), the freezing done by build_and_train_models(), the  *)
(* file naming of plot_images(), and wasserstein_loss() as an operator.     *)
(*                                                                         *)
(* Weights are floating point numbers in units of 0.01: a value is either   *)
(* a number or NaN, which an optimizer update can leave in a weight.        *)
(***************************************************************************)
EXTENDS Integers, Sequences, FiniteSets

VARIABLES
    train_steps,    \* params: number of outer iterations
    n_critic,       \* params: critic iterations per outer iteration
    batch_size,     \* params: examples per batch
    updateValues,   \* the values an optimizer update can leave in a weight of each
                    \* model in this run
    pc,             \* position in train()
    i,              \* outer loop variable: iterations completed
    k,              \* inner loop variable: critic iterations completed in this step
    dWeights,       \* discriminator.layers[l].get_weights()[t][e]
    gWeights,       \* the generator's weights
    clipActed,      \* the last clipping step changed some weight
    genChanged,     \* the last adversarial update changed the generator
    labelLog,       \* every <<update, labels>> handed to train_on_batch
    stepOps,        \* the operations of the current outer step, in order
    count,          \* how often each operation has completed
    files,          \* names of the grid files written by plot_images
    shown,          \* steps whose grid was displayed (plt.show)
    savedModel,     \* what generator.save wrote, <<>> before
    raised,         \* an exception has been raised
    y_label,        \* wasserstein_loss: labels of the batch
    y_pred,         \* wasserstein_loss: predictions of the batch
    scale,          \* the scalar a of a linearity check, a rational
    lossOfScaled,   \* wasserstein_loss(y_label, a * y_pred), <<>> before
    scaledLoss      \* a * wasserstein_loss(y_label, y_pred), <<>> before

trainVars == <<train_steps, n_critic, batch_size, updateValues, pc, i, k, dWeights,
               gWeights, clipActed, genChanged, labelLog, stepOps, count, files,
               shown, savedModel, raised>>
lossVars == <<y_label, y_pred, scale, lossOfScaled, scaledLoss>>
vars == <<trainVars, lossVars>>

----------------------------------------------------------------------------
(* Bounds of the model *)

\* the magnitude of the weights an update leaves beyond the clipping bounds, in
\* units of 0.01
MaxW == 2
\* largest generator weight value
MaxGen == 1
\* largest n_critic
MaxNCritic == 2
\* largest batch_size
MaxBatch == 2
\* largest train_steps of the runs with freely moving weights
MaxTrainSteps == 2
\* the long runs take train_steps around 1..MaxIntervals multiples of save_interval
MaxIntervals == 2
\* largest magnitude of a prediction
MaxPred == 2
\* largest numerator magnitude and denominator of the scalar a
MaxScale == 2

----------------------------------------------------------------------------
(* Program constants *)

\* clip_value = 0.01, in units of 0.01
clip_value == 1
\* the generator image is saved every 500 steps
save_interval == 500

----------------------------------------------------------------------------
(* Floating point values *)

NaN == [nan |-> TRUE, v |-> 0]
Num(x) == [nan |-> FALSE, v |-> x]

Min(a, b) == IF a <= b THEN a ELSE b
Max(a, b) == IF a >= b THEN a ELSE b

\* variant: a clip that forgets the upper bound
np_clip_lower_only(w, lo, hi) == IF w.nan THEN w ELSE Num(Max(w.v, lo))

\* np.clip(weight, lo, hi) on one element: minimum(maximum(w, lo), hi); NaN propagates
np_clip(w, lo, hi) == IF w.nan THEN w ELSE Num(Min(Max(w.v, lo), hi))

\* w lies in [lo, hi]; every comparison with NaN is false
InRange(w, lo, hi) == ~w.nan /\ lo <= w.v /\ w.v <= hi

\* what an update can leave in a weight: a number below, at or inside the clipping
\* bounds, or above them, up to the magnitude MaxW, or NaN
AllValues ==
    {Num(x) : x \in {-MaxW, -clip_value, 0, clip_value, MaxW}} \cup {NaN}

----------------------------------------------------------------------------
(* The models: build_and_train_models() *)

\* the weight tensors of the discriminator's layers, as the number of elements of
\* each tensor of each layer: a convolution (kernel), a LeakyReLU (no weights),
\* the final Dense (kernel)
D_SHAPE == <<<<1>>, <<>>, <<1>>>>

TensorSet(n, vals) == [1..n -> vals]

LayerSet(ls, vals) ==
    {w \in [1..Len(ls) -> UNION {TensorSet(ls[t], vals) : t \in 1..Len(ls)}] :
        \A t \in 1..Len(ls) : w[t] \in TensorSet(ls[t], vals)}

\* every assignment of values to the discriminator's weights
WeightSet(vals) ==
    {w \in [1..Len(D_SHAPE) -> UNION {LayerSet(D_SHAPE[l], vals) : l \in 1..Len(D_SHAPE)}] :
        \A l \in 1..Len(D_SHAPE) : w[l] \in LayerSet(D_SHAPE[l], vals)}

GenValues == 0..MaxGen

\* discriminator.trainable when discriminator.compile runs: the Keras default
trainable_at_discriminator_compile == TRUE

\* variant: the flag left at the Keras default
keras_default_trainable == TRUE

\* discriminator.trainable when adversarial.compile runs: set to False just before
discriminator_trainable == FALSE

\* the models whose weights discriminator.train_on_batch updates
DiscriminatorUpdates ==
    IF trainable_at_discriminator_compile THEN {"discriminator"} ELSE {}

\* the models whose weights adversarial.train_on_batch updates:
\* adversarial = discriminator(generator(inputs)), compiled with the flag above
AdversarialUpdates ==
    {"generator"} \cup (IF discriminator_trainable THEN {"discriminator"} ELSE {})

----------------------------------------------------------------------------
(* train(): the pure parts *)

\* variant: range(train_steps + 1)
range_one_more(n, steps) == n <= steps

\* for i in range(train_steps)
OuterContinues(n, steps) == n < steps

\* variant: a single critic iteration per step whatever n_critic
range_at_most_one(n, critic) == n < Min(critic, 1)

\* for _ in range(n_critic)
InnerContinues(n, critic) == n < critic

\* np.ones((batch_size, 1))
Ones(n) == [j \in 1..n |-> 1]
\* unary minus on an array
Negate(lab) == [j \in 1..Len(lab) |-> -lab[j]]

\* real_labels = np.ones((batch_size, 1))
real_labels(n) == Ones(n)

\* variant: the fake batch labelled like the real one
fake_labels_not_negated(n) == real_labels(n)

\* -real_labels
fake_labels(n) == Negate(real_labels(n))

\* y = np.ones([batch_size, 1])
adversarial_labels(n) == Ones(n)

\* one layer's weights = [np.clip(weight, -clip_value, clip_value) for weight in weights]
ClipLayer(layer) ==
    [t \in 1..Len(layer) |->
        [e \in 1..Len(layer[t]) |-> np_clip(layer[t][e], -clip_value, clip_value)]]

\* for layer in discriminator.layers: ... layer.set_weights(weights), the first j layers
ClipPrefix(weights, j) ==
    [l \in 1..Len(weights) |-> IF l <= j THEN ClipLayer(weights[l]) ELSE weights[l]]

\* variant: only the first layer clipped
ClipFirstLayerOnly(weights) == ClipPrefix(weights, 1)

\* the whole clipping loop
ClipWeights(weights) == ClipPrefix(weights, Len(weights))

\* variant: the test on i instead of i + 1
SaveDueOnIndex(n) == n % save_interval = 0

\* if (i + 1) % save_interval == 0
SaveDue(n) == (n + 1) % save_interval = 0

\* variant: show never set
ShowNever(n, steps) == FALSE

\* show = True if (i + 1) == train_steps else False
Show(n, steps) == (n + 1) = steps

\* variant: a handler that goes on to save the generator
SaveOnFailure == "save"

\* an exception raised inside train() is caught nowhere: control leaves train()
Propagate == "failed"

----------------------------------------------------------------------------
(* plot_images(): the file name *)

RECURSIVE Digits(_)
\* the decimal digits of n >= 0, most significant first
Digits(n) == IF n < 10 THEN <<n>> ELSE Append(Digits(n \div 10), n % 10)

RECURSIVE ZeroPad(_, _)
ZeroPad(ds, width) == IF Len(ds) >= width THEN ds ELSE ZeroPad(<<0>> \o ds, width)

\* "%05d" % step
Fmt05d(step) == ZeroPad(Digits(step), 5)

RECURSIVE ParseNat(_)
\* the number a digit sequence writes
ParseNat(ds) == IF Len(ds) = 0 THEN 0
                ELSE 10 * ParseNat(SubSeq(ds, 1, Len(ds) - 1)) + ds[Len(ds)]

----------------------------------------------------------------------------
(* train(): the state machine *)

NoCount == [outer |-> 0, predict |-> 0, real |-> 0, fake |-> 0, clip |-> 0,
            adv |-> 0, plot |-> 0, save |-> 0]

Bump(c, op) == [c EXCEPT ![op] = @ + 1]

\* train_steps of the long runs: around each multiple of save_interval
LongRuns == {m * save_interval + d : m \in 1..MaxIntervals, d \in {-1, 0, 1}}

LossIdle ==
    /\ y_label = <<>>
    /\ y_pred = <<>>
    /\ scale = <<0, 1>>
    /\ lossOfScaled = <<>>
    /\ scaledLoss = <<>>

\* the state at the entry of train(): short runs whose updates leave any value in
\* a weight, and long runs (reaching save_interval) whose weights stay at 0
Init ==
    /\ \/ /\ train_steps \in 0..MaxTrainSteps
          /\ n_critic \in 0..MaxNCritic
          /\ batch_size \in 1..MaxBatch
          /\ updateValues = [discriminator |-> AllValues, generator |-> GenValues]
       \/ /\ train_steps \in LongRuns
          /\ n_critic = 1
          /\ batch_size = 1
          /\ updateValues = [discriminator |-> {Num(0)}, generator |-> {0}]
    /\ pc = "for"
    /\ i = 0
    /\ k = 0
    /\ dWeights \in WeightSet(updateValues["discriminator"])
    /\ gWeights \in updateValues["generator"]
    /\ clipActed = FALSE
    /\ genChanged = FALSE
    /\ labelLog = {}
    /\ stepOps = <<>>
    /\ count = NoCount
    /\ files = {}
    /\ shown = {}
    /\ savedModel = <<>>
    /\ raised = FALSE
    /\ LossIdle

\* an exception leaves the operation at pc: nothing more of train() runs
Raise ==
    /\ raised' = TRUE
    /\ pc' = Propagate

\* line 67: for i in range(train_steps), and loss = 0, acc = 0
For ==
    /\ pc = "for"
    /\ \/ /\ OuterContinues(i, train_steps)
          /\ pc' = "inner"
          /\ k' = 0
          /\ stepOps' = <<>>
          /\ count' = Bump(count, "outer")
       \/ /\ ~OuterContinues(i, train_steps)
          /\ pc' = "save"
          /\ UNCHANGED <<k, stepOps, count>>
    /\ UNCHANGED <<train_steps, n_critic, batch_size, updateValues, i, dWeights,
                   gWeights, clipActed, genChanged, labelLog, files, shown,
                   savedModel, raised, lossVars>>

\* line 71: for _ in range(n_critic)
Inner ==
    /\ pc = "inner"
    /\ \/ /\ InnerContinues(k, n_critic)
          /\ pc' = "predict"
       \/ /\ ~InnerContinues(k, n_critic)
          /\ pc' = "average"
    /\ UNCHANGED <<train_steps, n_critic, batch_size, updateValues, i, k, dWeights,
                   gWeights, clipActed, genChanged, labelLog, stepOps, count, files,
                   shown, savedModel, raised, lossVars>>

\* lines 75-82: pick the real images, fake_images = generator.predict(noise)
Predict ==
    /\ pc = "predict"
    /\ \/ /\ pc' = "real"
          /\ stepOps' = Append(stepOps, "predict")
          /\ count' = Bump(count, "predict")
          /\ UNCHANGED raised
       \/ /\ Raise
          /\ UNCHANGED <<stepOps, count>>
    /\ UNCHANGED <<train_steps, n_critic, batch_size, updateValues, i, k, dWeights,
                   gWeights, clipActed, genChanged, labelLog, files, shown,
                   savedModel, lossVars>>

\* what a train_on_batch of a model updating `updates` can leave in the discriminator
DiscriminatorAfter(updates) ==
    IF "discriminator" \in updates
    THEN WeightSet(updateValues["discriminator"]) ELSE {dWeights}

\* what it can leave in the generator
GeneratorAfter(updates) ==
    IF "generator" \in updates THEN updateValues["generator"] ELSE {gWeights}

\* lines 85-87: discriminator.train_on_batch(real_images, real_labels)
TrainReal ==
    /\ pc = "real"
    /\ \/ /\ dWeights' \in DiscriminatorAfter(DiscriminatorUpdates)
          /\ labelLog' = labelLog \cup {<<"real", real_labels(batch_size)>>}
          /\ pc' = "fake"
          /\ stepOps' = Append(stepOps, "real")
          /\ count' = Bump(count, "real")
          /\ UNCHANGED raised
       \/ /\ Raise
          /\ UNCHANGED <<dWeights, labelLog, stepOps, count>>
    /\ UNCHANGED <<train_steps, n_critic, batch_size, updateValues, i, k, gWeights,
                   clipActed, genChanged, files, shown, savedModel, lossVars>>

\* lines 88-91: discriminator.train_on_batch(fake_images, -real_labels)
TrainFake ==
    /\ pc = "fake"
    /\ \/ /\ dWeights' \in DiscriminatorAfter(DiscriminatorUpdates)
          /\ labelLog' = labelLog \cup {<<"fake", fake_labels(batch_size)>>}
          /\ pc' = "clip"
          /\ stepOps' = Append(stepOps, "fake")
          /\ count' = Bump(count, "fake")
          /\ UNCHANGED raised
       \/ /\ Raise
          /\ UNCHANGED <<dWeights, labelLog, stepOps, count>>
    /\ UNCHANGED <<train_steps, n_critic, batch_size, updateValues, i, k, gWeights,
                   clipActed, genChanged, files, shown, savedModel, lossVars>>

\* lines 94-99: clip the weights of every layer; a get_weights or set_weights that
\* raises leaves the layers before it clipped
Clip ==
    /\ pc = "clip"
    /\ \/ /\ dWeights' = ClipWeights(dWeights)
          /\ clipActed' = (dWeights' # dWeights)
          /\ k' = k + 1
          /\ pc' = "inner"
          /\ stepOps' = Append(stepOps, "clip")
          /\ count' = Bump(count, "clip")
          /\ UNCHANGED raised
       \/ /\ \E j \in 0..(Len(dWeights) - 1) : dWeights' = ClipPrefix(dWeights, j)
          /\ Raise
          /\ UNCHANGED <<clipActed, k, stepOps, count>>
    /\ UNCHANGED <<train_steps, n_critic, batch_size, updateValues, i, gWeights,
                   genChanged, labelLog, files, shown, savedModel, lossVars>>

\* lines 102-104: loss /= n_critic, acc /= n_critic: ZeroDivisionError for n_critic = 0
Average ==
    /\ pc = "average"
    /\ \/ /\ n_critic # 0
          /\ pc' = "adv"
          /\ UNCHANGED raised
       \/ /\ n_critic = 0
          /\ Raise
    /\ UNCHANGED <<train_steps, n_critic, batch_size, updateValues, i, k, dWeights,
                   gWeights, clipActed, genChanged, labelLog, stepOps, count, files,
                   shown, savedModel, lossVars>>

\* lines 111-122: adversarial.train_on_batch(noise, y)
TrainAdversarial ==
    /\ pc = "adv"
    /\ \/ /\ dWeights' \in DiscriminatorAfter(AdversarialUpdates)
          /\ gWeights' \in GeneratorAfter(AdversarialUpdates)
          /\ genChanged' = (gWeights' # gWeights)
          /\ labelLog' = labelLog \cup {<<"adv", adversarial_labels(batch_size)>>}
          /\ pc' = "plot"
          /\ stepOps' = Append(stepOps, "adv")
          /\ count' = Bump(count, "adv")
          /\ UNCHANGED raised
       \/ /\ Raise
          /\ UNCHANGED <<dWeights, gWeights, genChanged, labelLog, stepOps, count>>
    /\ UNCHANGED <<train_steps, n_critic, batch_size, updateValues, i, k, clipActed,
                   files, shown, savedModel, lossVars>>

\* lines 123-134 and plot_images: the grid of step i + 1, and the end of the loop
\* body; plot_images can raise before savefig or after it
Plot ==
    /\ pc = "plot"
    /\ \/ /\ SaveDue(i)
          /\ files' = files \cup {Fmt05d(i + 1)}
          /\ shown' = IF Show(i, train_steps) THEN shown \cup {i + 1} ELSE shown
          /\ count' = Bump(count, "plot")
          /\ i' = i + 1
          /\ pc' = "for"
          /\ UNCHANGED raised
       \/ /\ ~SaveDue(i)
          /\ i' = i + 1
          /\ pc' = "for"
          /\ UNCHANGED <<files, shown, count, raised>>
       \/ /\ SaveDue(i)
          /\ \/ files' = files
             \/ files' = files \cup {Fmt05d(i + 1)}
          /\ Raise
          /\ UNCHANGED <<shown, count, i>>
    /\ UNCHANGED <<train_steps, n_critic, batch_size, updateValues, k, dWeights,
                   gWeights, clipActed, genChanged, labelLog, stepOps, savedModel,
                   lossVars>>

\* line 138: generator.save(model_name + ".h5")
Save ==
    /\ pc = "save"
    /\ \/ /\ savedModel' = <<gWeights>>
          /\ count' = Bump(count, "save")
          /\ pc' = "done"
          /\ UNCHANGED raised
       \/ /\ Raise
          /\ UNCHANGED <<savedModel, count>>
    /\ UNCHANGED <<train_steps, n_critic, batch_size, updateValues, i, k, dWeights,
                   gWeights, clipActed, genChanged, labelLog, stepOps, files, shown,
                   lossVars>>

Next ==
    \/ For
    \/ Inner
    \/ Predict
    \/ TrainReal
    \/ TrainFake
    \/ Clip
    \/ Average
    \/ TrainAdversarial
    \/ Plot
    \/ Save

Spec == Init /\ [][Next]_vars

----------------------------------------------------------------------------
(* wasserstein_loss(): exact arithmetic on rationals <<numerator, denominator>> *)

RatOfInt(n) == <<n, 1>>
RatMul(a, b) == <<a[1] * b[1], a[2] * b[2]>>
RatAdd(a, b) == <<a[1] * b[2] + b[1] * a[2], a[2] * b[2]>>
RatEq(a, b) == a[1] * b[2] = b[1] * a[2]
RatLess(a, b) == a[1] * b[2] < b[1] * a[2]
RatClip(x, lo, hi) == IF RatLess(x, lo) THEN lo ELSE IF RatLess(hi, x) THEN hi ELSE x

RECURSIVE RatSum(_)
RatSum(xs) == IF Len(xs) = 0 THEN RatOfInt(0) ELSE RatAdd(xs[1], RatSum(Tail(xs)))

\* K.mean over the whole tensor
K_mean(xs) == RatMul(RatSum(xs), <<1, Len(xs)>>)

\* variant: predictions bounded to [-1, 1] inside the loss
wasserstein_loss_bounded(labels, preds) ==
    K_mean([j \in 1..Len(preds) |->
        RatMul(RatOfInt(-labels[j]), RatClip(preds[j], RatOfInt(-1), RatOfInt(1)))])

\* return K.mean(-y_label * y_pred)
wasserstein_loss(labels, preds) ==
    K_mean([j \in 1..Len(preds) |-> RatMul(RatOfInt(-labels[j]), preds[j])])

\* a * y_pred, elementwise
ScalePred(a, preds) == [j \in 1..Len(preds) |-> RatMul(a, preds[j])]

Scalars == {<<p, q>> : p \in -MaxScale..MaxScale, q \in 1..MaxScale}

\* a batch of labels in {+1, -1}, predictions of the same shape and a scalar
InitLoss ==
    /\ \E n \in 1..MaxBatch :
          /\ batch_size = n
          /\ y_label \in [1..n -> {1, -1}]
          /\ y_pred \in [1..n -> {RatOfInt(x) : x \in -MaxPred..MaxPred}]
    /\ scale \in Scalars
    /\ lossOfScaled = <<>>
    /\ scaledLoss = <<>>
    /\ train_steps = 0
    /\ n_critic = 0
    /\ updateValues = [discriminator |-> {}, generator |-> {}]
    /\ pc = "loss"
    /\ i = 0
    /\ k = 0
    /\ dWeights = <<>>
    /\ gWeights = 0
    /\ clipActed = FALSE
    /\ genChanged = FALSE
    /\ labelLog = {}
    /\ stepOps = <<>>
    /\ count = NoCount
    /\ files = {}
    /\ shown = {}
    /\ savedModel = <<>>
    /\ raised = FALSE

\* wasserstein_loss(y_label, a * y_pred)
LossOfScaledPred ==
    /\ pc = "loss"
    /\ lossOfScaled = <<>>
    /\ lossOfScaled' = <<wasserstein_loss(y_label, ScalePred(scale, y_pred))>>
    /\ UNCHANGED <<trainVars, y_label, y_pred, scale, scaledLoss>>

\* a * wasserstein_loss(y_label, y_pred)
ScaleLoss ==
    /\ pc = "loss"
    /\ scaledLoss = <<>>
    /\ scaledLoss' = <<RatMul(scale, wasserstein_loss(y_label, y_pred))>>
    /\ UNCHANGED <<trainVars, y_label, y_pred, scale, lossOfScaled>>

NextLoss ==
    \/ LossOfScaledPred
    \/ ScaleLoss

SpecLoss == InitLoss /\ [][NextLoss]_vars

----------------------------------------------------------------------------
(* Properties *)

\* the elements of all weight tensors of all layers
Elements(weights) ==
    UNION {UNION {{weights[l][t][e] : e \in 1..Len(weights[l][t])} :
                     t \in 1..Len(weights[l])} : l \in 1..Len(weights)}

AllInRange(weights) ==
    \A w \in Elements(weights) : InRange(w, -clip_value, clip_value)

AllInRangeOrNaN(weights) ==
    \A w \in Elements(weights) : w.nan \/ InRange(w, -clip_value, clip_value)

\* the state right after a completed clipping step
JustClipped == pc = "inner" /\ k >= 1

ReadAfterUpdate == pc \in {"real", "fake", "adv"} /\ count["real"] >= 1

C3_AdversarialKeepsDiscriminator ==
    [][/\ pc = "adv" => dWeights' = dWeights
       /\ dWeights' # dWeights => pc \in {"real", "fake", "clip"}]_vars

C3_Witness == pc = "plot" /\ count["adv"] >= 1 /\ genChanged

\* the steps in 1..n at which a grid is due
GridSteps(n) == {s \in 1..n : s % save_interval = 0}

\* C4: after i completed steps the grid files written are exactly those named by
\* the steps s in 1..i divisible by save_interval, one file per such step, and a
\* complete run has completed train_steps steps: floor(train_steps / save_interval)
\* files
C4_GridFilesFollowCadence ==
    /\ (~raised /\ pc \in {"for", "save", "done"}) =>
          /\ files = {Fmt05d(s) : s \in GridSteps(i)}
          /\ \A f \in files : Len(f) = 5 /\ ParseNat(f) \in GridSteps(i)
    /\ ~raised =>
          /\ Cardinality(files) = i \div save_interval
          /\ count["plot"] = i \div save_interval
    /\ pc = "done" => i = train_steps

C4_Witness ==
    /\ pc = "done"
    /\ train_steps = 2 * save_interval
    /\ files = {<<0, 0, 5, 0, 0>>, <<0, 1, 0, 0, 0>>}

\* C5 as stated: for every train_steps >= 1 a complete run displays the grid on
\* its final step
C5_ShownOnFinalStep == (pc = "done" /\ train_steps >= 1) => train_steps \in shown

\* C5, amended: a complete run displays the grid on its final step, and on no
\* other, when train_steps >= 1 is a multiple of save_interval; for any other
\* train_steps it displays no grid at all
C5_ShownOnFinalStepIfDue ==
    pc = "done" =>
        shown = IF train_steps >= 1 /\ train_steps % save_interval = 0
                THEN {train_steps} ELSE {}

C5_Witness == pc = "done" /\ shown = {2 * save_interval}

\* C6: no step runs more than train_steps outer iterations; when no step fails
\* the run goes on until it has saved; the generator is saved once, after exactly
\* train_steps outer iterations and adversarial updates, and what was saved is the
\* generator as it is at the end
C6_SavedOnceAfterAllSteps ==
    /\ count["outer"] <= train_steps
    /\ pc = "save" => count["outer"] = train_steps
    /\ (~raised /\ pc # "done") => ENABLED Next
    /\ (pc = "done" \/ count["save"] > 0 \/ savedModel # <<>>) =>
          /\ pc = "done"
          /\ ~raised
          /\ count["save"] = 1
          /\ i = train_steps
          /\ count["outer"] = train_steps
          /\ count["adv"] = train_steps
          /\ savedModel = <<gWeights>>

C6_Witness ==
    /\ pc = "done"
    /\ train_steps = 2
    /\ genChanged
    /\ savedModel = <<gWeights>>

\* C7: every label of every optimizer update is +1 or -1: +1 for all examples of
\* a real batch, -1 for all examples of a fake batch, +1 for all examples of an
\* adversarial update
C7_LabelsPlusMinusOne ==
    \A u \in labelLog :
        /\ Len(u[2]) = batch_size
        /\ \A j \in 1..Len(u[2]) : u[2][j] = (IF u[1] = "fake" THEN -1 ELSE 1)

C7_Witness ==
    /\ {u[1] : u \in labelLog} = {"real", "fake", "adv"}
    /\ batch_size >= 2

\* C8: wasserstein_loss(label, a * pred) = a * wasserstein_loss(label, pred)
C8_LossLinearInPredictions ==
    (lossOfScaled # <<>> /\ scaledLoss # <<>>) => RatEq(lossOfScaled[1], scaledLoss[1])

C8_Witness ==
    /\ lossOfScaled # <<>>
    /\ scaledLoss # <<>>
    /\ Len(y_pred) >= 2
    /\ y_label[1] # y_label[2]
    /\ scale = <<-1, 2>>
    /\ ~RatEq(scaledLoss[1], RatOfInt(0))

RECURSIVE CriticIterations(_)
CriticIterations(n) ==
    IF n = 0 THEN <<>> ELSE <<"predict", "real", "fake", "clip">> \o CriticIterations(n - 1)

\* the operations of one outer step, in order
StepOrder(n) == CriticIterations(n) \o <<"adv">>

IsPrefix(a, b) == Len(a) <= Len(b) /\ a = SubSeq(b, 1, Len(a))

\* C9: the operations of an outer step run in the order n_critic times (forward
\* pass, real update, fake update, clipping), then one adversarial update; a step
\* is complete only with all of them; a complete run has train_steps * n_critic
\* critic iterations and train_steps generator updates
C9_StepOrder ==
    /\ IsPrefix(stepOps, StepOrder(n_critic))
    /\ pc = "plot" => stepOps = StepOrder(n_critic)
    /\ pc \in {"for", "save", "done"} =>
          /\ count["predict"] = i * n_critic
          /\ count["real"] = i * n_critic
          /\ count["fake"] = i * n_critic
          /\ count["clip"] = i * n_critic
          /\ count["adv"] = i
    /\ pc = "done" => i = train_steps /\ count["outer"] = train_steps

C9_Witness ==
    /\ pc = "done"
    /\ train_steps = 2
    /\ n_critic = 2
    /\ count["predict"] = 4
    /\ count["clip"] = 4
    /\ count["adv"] = 2

\* C10: once an operation has raised, the run has stopped for good, the generator
\* was not and will not be saved, and the grid files of the steps completed
\* before are still there
C10_FailureStopsRun ==
    raised =>
        /\ pc = "failed"
        /\ ~ENABLED Next
        /\ count["save"] = 0
        /\ savedModel = <<>>
        /\ {Fmt05d(s) : s \in GridSteps(i)} \subseteq files

C10_Witness ==
    /\ raised
    /\ pc = "failed"
    /\ i > save_interval
    /\ count["outer"] > i
    /\ files = {<<0, 0, 5, 0, 0>>}
====
